---------------------------- MODULE Spec2Model ----------------------------
(***************************************************************************)
(* Cognition loop of omni-agi: GoalManager (core/cognition/goals.py),      *)
(* MemoryManager (cognition/memory.py), ContextManager                     *)
(* (core/cognition/context.py) and the context similarity of               *)
(* LearningManager (cognition/learning.py), with the ErrorHandler          *)
(* (utils/error_handler.py) and Agent._run_cognition_loop (agent.py).      *)
(*                                                                         *)
(* Time is the reading of datetime.now(), an integer number of clock       *)
(* ticks.  Two successive readings may be equal (the clock has a finite    *)
(* resolution), so the clock advances by a separate Tick action.           *)
(* Floats in [0,1] are integers in units of 1/One.                         *)
(***************************************************************************)
EXTENDS Integers, Sequences, FiniteSets, TLC

VARIABLES
    now,              \* datetime.now()
    objs,             \* every Goal object ever constructed, by object identity
    goals,            \* GoalManager.goals: insertion-ordered dict id -> Goal
    completed_goals,  \* GoalManager.completed_goals: list of Goal
    failed_goals,     \* GoalManager.failed_goals: list of Goal
    created,          \* history: per Goal object, the arguments of its create_goal
    last,             \* the last GoalManager call: name, id and progress arguments, outcome
    short_term_limit, \* MemoryManager.short_term_limit
    long_term_limit,  \* MemoryManager.long_term_limit
    decay_interval,   \* MemoryManager.decay_interval
    mems,             \* every Memory object ever constructed, by object identity
    memories,         \* MemoryManager.memories: MemoryType -> list of Memory
    index,            \* MemoryManager.index: tag -> list of Memory
    mlast,            \* the last MemoryManager call: name and outcome
    context_ttl,      \* ContextManager.context_ttl
    current_context,  \* ContextManager.current_context: ContextType -> Context
    context_history,  \* ContextManager.context_history: list of Context
    clast,            \* the last ContextManager call: name, arguments, outcome
    context1,         \* first argument of _calculate_similarity
    context2,         \* second argument of _calculate_similarity
    similarity,       \* the value _calculate_similarity returned
    experiences,      \* LearningManager.experiences: list of experiences
    patterns,         \* LearningManager.patterns
    llast,            \* the last LearningManager call: name, arguments, outcome
    error_counts,     \* ErrorHandler.error_counts: error type -> count, 0 for no key
    max_retries,      \* ErrorHandler.max_retries
    retries,          \* history: per error type, the calls made to a retry function
    hlast,            \* the last ErrorHandler call: name, arguments, outcome
    pc,               \* Agent._run_cognition_loop: the call the loop makes next
    loop_error,       \* the exception the running iteration raised
    active_goals,     \* goals of active_goals the for loop has yet to process
    pending_actions,  \* actions of the goal the for loop has yet to execute
    new_goals,        \* goals of new_goals the for loop has yet to add
    slept             \* the delay of the last asyncio.sleep of the loop

gvars == <<now, objs, goals, completed_goals, failed_goals, created, last>>

mvars == <<short_term_limit, long_term_limit, decay_interval, mems, memories,
           index, mlast>>

\* the GoalManager's own state
gstate == <<objs, goals, completed_goals, failed_goals, created, last>>

cvars == <<context_ttl, current_context, context_history, clast>>

svars == <<context1, context2, similarity>>

lvars == <<experiences, patterns, llast>>

hvars == <<error_counts, max_retries, retries, hlast>>

avars == <<pc, loop_error, active_goals, pending_actions, new_goals, slept>>

vars == <<gvars, mvars, cvars, svars, lvars, hvars, avars>>

-----------------------------------------------------------------------------
(* Bounds *)
MaxTime == 1        \* clock readings 0..MaxTime
MaxGoals == 2       \* Goal objects constructed in one run
MaxDeps == 2        \* length of a dependencies argument
MaxBurstGoals == 4  \* Goal objects constructed in one burst
MaxFailGoals == 3   \* Goal objects constructed in a run with failures
MaxRankedGoals == 5 \* Goal objects constructed in a run with several priorities
MaxMems == 3        \* Memory objects constructed in one run
MaxLimit == 2       \* short_term_limit and long_term_limit
MaxCtxTime == 3     \* clock readings of a ContextManager run
MaxContexts == 2    \* add_context calls in one run
MaxTtl == 2         \* ttl arguments and context_ttl, in clock ticks
MaxExperiences == 3 \* experiences a get_similar_experiences run holds
MaxRecommended == 6 \* experiences a get_recommendation run holds
MaxErrorCount == 5  \* errors of one type an ErrorHandler run handles
MaxActiveGoals == 1 \* active goals of one cognition-loop iteration
MaxLoopActions == 2 \* actions determined for one goal
MaxNewGoals == 2    \* goals generated by one iteration

(* 1.0 in units of 1/One *)
One == 2

GoalTypes == {"market_analysis"}
Priorities == {1}
ProgressInputs == {0 - 1, 0, 1, One, One + 1}
Reasons == {"timeout"}

Range(s) == {s[i] : i \in DOMAIN s}

SeqsUpTo(S, n) == UNION {[1..k -> S] : k \in 0..n}

\* the dependency lists a caller passes: up to MaxDeps distinct known ids, in
\* creation order of the goals they name
DepInputs(os) ==
    {s \in SeqsUpTo(DOMAIN os, MaxDeps) : \A i, j \in DOMAIN s : i < j => s[i] < s[j]}

RECURSIVE Count(_, _)
Count(s, x) ==
    IF s = <<>> THEN 0
    ELSE (IF Head(s) = x THEN 1 ELSE 0) + Count(Tail(s), x)

-----------------------------------------------------------------------------
(* MemoryManager *)

\* MemoryType; episodic and semantic are handled like working
MemoryTypes == <<"short_term", "long_term", "working">>

\* MemoryPriority values
LOW == 0
MEDIUM == 1
HIGH == 2
CRITICAL == 3

Tags == {"market", "news"}
TagInputs == {<<"market">>, <<"news">>, <<"market", "news">>}
None == 0 - 1

\* class Memory is a dataclass with eq and without frozen or unsafe_hash: its
\* __hash__ is None, a Memory cannot be put in a set
MemoryHashable == FALSE

\* dataclass __eq__: two Memory objects are equal when all their fields are
MemEq(ms, a, b) == ms[a] = ms[b]

\* memory in list
MemIn(ms, a, lst) == \E i \in DOMAIN lst : MemEq(ms, lst[i], a)

\* list.remove(memory): removes the first element equal to it
RECURSIVE MemRemove(_, _, _)
MemRemove(ms, lst, a) ==
    IF lst = <<>> THEN <<>>
    ELSE IF MemEq(ms, Head(lst), a) THEN Tail(lst)
    ELSE <<Head(lst)>> \o MemRemove(ms, Tail(lst), a)

\* lexicographic order of tuples of numbers of one length
RECURSIVE TupleLess(_, _)
TupleLess(a, b) ==
    IF a = <<>> THEN FALSE
    ELSE IF Head(a) # Head(b) THEN Head(a) < Head(b)
    ELSE TupleLess(Tail(a), Tail(b))

\* list.sort(key=...): stable, ascending; key maps each element to its key
RECURSIVE InsertAsc(_, _, _)
InsertAsc(s, x, key) ==
    IF s = <<>> THEN <<x>>
    ELSE IF TupleLess(key[x], key[s[Len(s)]])
         THEN Append(InsertAsc(SubSeq(s, 1, Len(s) - 1), x, key), s[Len(s)])
         ELSE Append(s, x)

RECURSIVE SortAsc(_, _)
SortAsc(s, key) ==
    IF s = <<>> THEN <<>>
    ELSE InsertAsc(SortAsc(SubSeq(s, 1, Len(s) - 1), key), s[Len(s)], key)

\* list.sort(key=..., reverse=True): stable, descending
RECURSIVE InsertDesc(_, _, _)
InsertDesc(s, x, key) ==
    IF s = <<>> THEN <<x>>
    ELSE IF TupleLess(key[s[Len(s)]], key[x])
         THEN Append(InsertDesc(SubSeq(s, 1, Len(s) - 1), x, key), s[Len(s)])
         ELSE Append(s, x)

RECURSIVE SortDesc(_, _)
SortDesc(s, key) ==
    IF s = <<>> THEN <<>>
    ELSE InsertDesc(SortDesc(SubSeq(s, 1, Len(s) - 1), key), s[Len(s)], key)

\* the key of _enforce_memory_limits
EvictionKey(ms) ==
    [m \in DOMAIN ms |-> <<ms[m].priority, ms[m].access_count, ms[m].timestamp>>]

\* the key of retrieve_by_tags
RelevanceKey(ms) == [m \in DOMAIN ms |-> <<ms[m].priority, ms[m].timestamp>>]

\* for tag in memory.tags: if memory in self.index[tag]: self.index[tag].remove(memory)
RECURSIVE Unindex(_, _, _, _)
Unindex(ms, idx, m, tags) ==
    IF tags = <<>> THEN idx
    ELSE LET t == Head(tags)
             i1 == IF MemIn(ms, m, idx[t])
                   THEN [idx EXCEPT ![t] = MemRemove(ms, @, m)]
                   ELSE idx
         IN  Unindex(ms, i1, m, Tail(tags))

RECURSIVE UnindexAll(_, _, _)
UnindexAll(ms, idx, removed) ==
    IF removed = <<>> THEN idx
    ELSE UnindexAll(ms, Unindex(ms, idx, Head(removed), ms[Head(removed)].tags),
                    Tail(removed))

\* _enforce_memory_limits keeping memories[:limit], the lowest of the sort
enforce_keeps_lowest(ms, mem, idx, memory_type, stl, ltl) ==
    IF memory_type \notin {"short_term", "long_term"}
    THEN [memories |-> mem, index |-> idx]
    ELSE LET limit  == IF memory_type = "short_term" THEN stl ELSE ltl
             lst    == mem[memory_type]
             n      == Len(lst)
             sorted == SortAsc(lst, EvictionKey(ms))
         IN  IF n > limit
             THEN [memories |-> [mem EXCEPT ![memory_type] = SubSeq(sorted, 1, limit)],
                   index |-> UnindexAll(ms, idx, SubSeq(sorted, limit + 1, n))]
             ELSE [memories |-> mem, index |-> idx]

\* _enforce_memory_limits: the stores and the index after it
enforce_memory_limits(ms, mem, idx, memory_type, stl, ltl) ==
    IF memory_type \notin {"short_term", "long_term"}
    THEN [memories |-> mem, index |-> idx]
    ELSE LET limit  == IF memory_type = "short_term" THEN stl ELSE ltl
             lst    == mem[memory_type]
             n      == Len(lst)
             sorted == SortAsc(lst, EvictionKey(ms))
             \* memories[:-limit] and memories[-limit:]; -0 is 0
             cut    == IF limit = 0 THEN 0 ELSE n - limit
             remove == SubSeq(sorted, 1, cut)
             keep   == SubSeq(sorted, cut + 1, n)
         IN  IF n > limit
             THEN [memories |-> [mem EXCEPT ![memory_type] = keep],
                   index |-> UnindexAll(ms, idx, remove)]
             ELSE [memories |-> mem, index |-> idx]

\* for tag in tags: self.index[tag].append(memory)
RECURSIVE IndexUnder(_, _, _)
IndexUnder(idx, m, tags) ==
    IF tags = <<>> THEN idx
    ELSE IndexUnder([idx EXCEPT ![Head(tags)] = Append(@, m)], m, Tail(tags))

\* MemoryManager(short_term_limit, long_term_limit, decay_interval)
MemoryInit(stl, ltl, di) ==
    /\ short_term_limit = stl
    /\ long_term_limit = ltl
    /\ decay_interval = di
    /\ mems = <<>>
    /\ memories = [t \in Range(MemoryTypes) |-> <<>>]
    /\ index = [t \in Tags |-> <<>>]
    /\ mlast = [op |-> "init", result |-> "ok", ret |-> <<>>]

store_memory(content, memory_type, priority, tags) ==
    LET m    == Len(mems) + 1
        ms1  == Append(mems, [content |-> content, type |-> memory_type,
                              priority |-> priority, timestamp |-> now,
                              tags |-> tags, access_count |-> 0,
                              last_accessed |-> now])
        mem1 == [memories EXCEPT ![memory_type] = Append(@, m)]
        idx1 == IndexUnder(index, m, tags)
        e    == enforce_memory_limits(ms1, mem1, idx1, memory_type,
                                      short_term_limit, long_term_limit)
    IN  /\ mems' = ms1
        /\ memories' = e.memories
        /\ index' = e.index
        /\ mlast' = [op |-> "store_memory", result |-> "ok", ret |-> <<m>>]
        /\ UNCHANGED <<now, short_term_limit, long_term_limit, decay_interval>>
        /\ UNCHANGED <<gstate, cvars, svars, lvars, hvars, avars>>

\* the set of refs as a list, in ascending order
RECURSIVE SetToSeq(_)
SetToSeq(S) ==
    IF S = {} THEN <<>>
    ELSE LET x == CHOOSE y \in S : \A z \in S : y <= z
         IN  <<x>> \o SetToSeq(S \ {x})

\* memories[:limit]
Prefix(s, limit) ==
    IF limit = None THEN s
    ELSE SubSeq(s, 1, IF limit < Len(s) THEN limit ELSE Len(s))

\* the list retrieve_by_tags sorts and returns when the set can be built
Matching(ms, idx, tags, memory_type) ==
    LET all == UNION {Range(idx[tags[i]]) : i \in DOMAIN tags}
        flt == IF memory_type = "none" THEN all
               ELSE {m \in all : ms[m].type = memory_type}
    IN  SortDesc(SetToSeq(flt), RelevanceKey(ms))

retrieve_by_tags(tags, memory_type, limit) ==
    IF (\E i \in DOMAIN tags : index[tags[i]] # <<>>) /\ ~MemoryHashable
    THEN \* matching_memories.update(self.index[tag]) raises TypeError
         /\ mlast' = [op |-> "retrieve_by_tags", result |-> "TypeError", ret |-> <<>>]
         /\ UNCHANGED <<now, short_term_limit, long_term_limit, decay_interval,
                        mems, memories, index>>
         /\ UNCHANGED <<gstate, cvars, svars, lvars, hvars, avars>>
    ELSE LET found   == Matching(mems, index, tags, memory_type)
             touched == Range(Prefix(found, limit))
         IN  /\ mems' = [m \in DOMAIN mems |->
                           IF m \in touched
                           THEN [mems[m] EXCEPT !.access_count = @ + 1,
                                                !.last_accessed = now]
                           ELSE mems[m]]
             /\ mlast' = [op |-> "retrieve_by_tags", result |-> "ok", ret |-> IF limit = None \/ limit = 0 THEN found
                                  ELSE Prefix(found, limit)]
             /\ UNCHANGED <<now, short_term_limit, long_term_limit, decay_interval,
                            memories, index>>
             /\ UNCHANGED <<gstate, cvars, svars, lvars, hvars, avars>>

\* get_recent_memories: the list it returns; a timeframe of None or of zero
\* length does not filter
RECURSIVE Concat(_)
Concat(ss) == IF ss = <<>> THEN <<>> ELSE Head(ss) \o Concat(Tail(ss))

RecentKey(ms) == [m \in DOMAIN ms |-> <<ms[m].timestamp>>]

Recent(ms, mem, t, memory_type, timeframe, limit) ==
    LET per == [i \in DOMAIN MemoryTypes |->
                   IF memory_type # "none" /\ MemoryTypes[i] # memory_type THEN <<>>
                   ELSE SelectSeq(mem[MemoryTypes[i]],
                            LAMBDA m : ~(timeframe # None /\ timeframe # 0
                                         /\ t - ms[m].timestamp > timeframe))]
        srt == SortDesc(Concat(per), RecentKey(ms))
    IN  IF limit = None \/ limit = 0 THEN srt ELSE Prefix(srt, limit)

get_recent_memories(memory_type, timeframe, limit) ==
    /\ mlast' = [op |-> "get_recent_memories", result |-> "ok", ret |-> Recent(mems, memories, now, memory_type, timeframe, limit)]
    /\ UNCHANGED <<now, short_term_limit, long_term_limit, decay_interval,
                   mems, memories, index>>
    /\ UNCHANGED <<gstate, cvars, svars, lvars, hvars, avars>>

\* _should_consolidate divides by age / decay_interval
ConsolidateDivides(m, t, di) ==
    /\ m.priority # CRITICAL
    /\ t - m.timestamp > di
    /\ m.access_count # 0

\* _should_consolidate without the test for CRITICAL
should_consolidate_any_priority(m, t, di) ==
    /\ t - m.timestamp > di
    /\ \/ m.access_count = 0
       \/ 10 * m.access_count * di < t - m.timestamp

\* _should_consolidate, where it returns; access_count / (age / decay_interval) < 0.1
should_consolidate(m, t, di) ==
    /\ m.priority # CRITICAL
    /\ t - m.timestamp > di
    /\ \/ m.access_count = 0
       \/ 10 * m.access_count * di < t - m.timestamp

\* the second loop of consolidate_memories: retype, append to long_term, remove
RECURSIVE MoveToLongTerm(_, _, _, _)
MoveToLongTerm(ms, mem, memory_type, todo) ==
    IF todo = <<>> THEN [mems |-> ms, memories |-> mem]
    ELSE LET m   == Head(todo)
             ms1 == [ms EXCEPT ![m].type = "long_term"]
             m1  == [mem EXCEPT !["long_term"] = Append(@, m)]
             m2  == [m1 EXCEPT ![memory_type] = MemRemove(ms1, @, m)]
         IN  MoveToLongTerm(ms1, m2, memory_type, Tail(todo))

consolidate_memories(memory_type) ==
    IF memory_type = "long_term"
    THEN /\ mlast' = [op |-> "consolidate_memories", result |-> "ok", ret |-> <<>>]
         /\ UNCHANGED <<now, short_term_limit, long_term_limit, decay_interval,
                        mems, memories, index>>
         /\ UNCHANGED <<gstate, cvars, svars, lvars, hvars, avars>>
    ELSE IF decay_interval = 0
            /\ \E i \in DOMAIN memories[memory_type] :
                  ConsolidateDivides(mems[memories[memory_type][i]], now, decay_interval)
    THEN \* age / self.decay_interval raises ZeroDivisionError in the first loop
         /\ mlast' = [op |-> "consolidate_memories", result |-> "ZeroDivisionError",
                      ret |-> <<>>]
         /\ UNCHANGED <<now, short_term_limit, long_term_limit, decay_interval,
                        mems, memories, index>>
         /\ UNCHANGED <<gstate, cvars, svars, lvars, hvars, avars>>
    ELSE LET todo == SelectSeq(memories[memory_type],
                         LAMBDA m : should_consolidate(mems[m], now, decay_interval))
             mv   == MoveToLongTerm(mems, memories, memory_type, todo)
             e    == enforce_memory_limits(mv.mems, mv.memories, index, "long_term",
                                           short_term_limit, long_term_limit)
         IN  /\ mems' = mv.mems
             /\ memories' = e.memories
             /\ index' = e.index
             /\ mlast' = [op |-> "consolidate_memories", result |-> "ok", ret |-> todo]
             /\ UNCHANGED <<now, short_term_limit, long_term_limit, decay_interval>>
             /\ UNCHANGED <<gstate, cvars, svars, lvars, hvars, avars>>

clear_memory(memory_type) ==
    /\ memories' = IF memory_type = "none"
                   THEN [t \in Range(MemoryTypes) |-> <<>>]
                   ELSE [memories EXCEPT ![memory_type] = <<>>]
    /\ index' = [t \in Tags |-> <<>>]
    /\ mlast' = [op |-> "clear_memory", result |-> "ok", ret |-> <<>>]
    /\ UNCHANGED <<now, short_term_limit, long_term_limit, decay_interval, mems>>
    /\ UNCHANGED <<gstate, cvars, svars, lvars, hvars, avars>>

Priorities4 == {LOW, MEDIUM, HIGH, CRITICAL}
Limits == {None, 0, 1}
Timeframes == {None, 0, 1}

StoreShortTermCall ==
    /\ Len(mems) < MaxMems
    /\ \E p \in Priorities4, tg \in {<<"market">>, <<"market", "news">>} :
          store_memory("c", "short_term", p, tg)

StoreMemoryCall ==
    /\ Len(mems) < MaxMems
    /\ \E ty \in {"short_term", "working"}, p \in {LOW, CRITICAL},
          tg \in {<<"market">>, <<"market", "news">>} :
          store_memory("c", ty, p, tg)

RetrieveByTagsCall ==
    \E tg \in TagInputs, ty \in {"none", "short_term"}, lim \in Limits :
        retrieve_by_tags(tg, ty, lim)

GetRecentMemoriesCall ==
    \E ty \in {"none", "short_term"}, tf \in Timeframes, lim \in Limits :
        get_recent_memories(ty, tf, lim)

ConsolidateMemoriesCall == \E ty \in Range(MemoryTypes) : consolidate_memories(ty)

ClearMemoryCall == \E ty \in Range(MemoryTypes) \cup {"none"} : clear_memory(ty)

-----------------------------------------------------------------------------
(* ContextManager *)

ContextTypes == {"market", "social"}
ContextData == {"d1", "d2"}
NoContext == [type |-> "none"]

\* context.expires and context.expires < datetime.now(), with a reading that
\* is also expired at the instant of expiry
ExpiredAtExpiry(c, t) == c.expires # None /\ c.expires <= t

\* context.expires and context.expires < datetime.now()
Expired(c, t) == c.expires # None /\ c.expires < t

\* _clean_expired_contexts
clean_expired_contexts(cur, t) ==
    [ty \in ContextTypes |->
        IF cur[ty] # NoContext /\ Expired(cur[ty], t) THEN NoContext ELSE cur[ty]]

\* ContextManager(context_ttl)
ContextInit(ttl) ==
    /\ context_ttl = ttl
    /\ current_context = [ty \in ContextTypes |-> NoContext]
    /\ context_history = <<>>
    /\ clast = [op |-> "init", type |-> "none", at |-> 0, ret |-> NoContext]

\* ttl = None is None; a ttl of 0 is not used either
add_context(context_type, data, priority, ttl) ==
    LET expires == IF ttl # None /\ ttl # 0 THEN now + ttl
                   ELSE IF context_ttl # None /\ context_ttl # 0 THEN now + context_ttl
                   ELSE None
        context == [type |-> context_type, data |-> data, timestamp |-> now,
                    expires |-> expires, priority |-> priority]
    IN  /\ current_context' =
               clean_expired_contexts([current_context EXCEPT ![context_type] = context], now)
        /\ context_history' = Append(context_history, context)
        /\ clast' = [op |-> "add_context", type |-> context_type, at |-> now,
                     ret |-> context]
        /\ UNCHANGED <<now, context_ttl>>
        /\ UNCHANGED <<gstate, mvars, svars, lvars, hvars, avars>>

\* get_context: the value returned and the current view after the lazy purge
GetContext(cur, context_type, t) ==
    IF cur[context_type] = NoContext
    THEN [ret |-> NoContext, current |-> cur]
    ELSE IF Expired(cur[context_type], t)
    THEN [ret |-> NoContext, current |-> [cur EXCEPT ![context_type] = NoContext]]
    ELSE [ret |-> cur[context_type], current |-> cur]

get_context(context_type) ==
    LET g == GetContext(current_context, context_type, now)
    IN  /\ current_context' = g.current
        /\ clast' = [op |-> "get_context", type |-> context_type, at |-> now,
                     ret |-> g.ret]
        /\ UNCHANGED <<now, context_ttl, context_history>>
        /\ UNCHANGED <<gstate, mvars, svars, lvars, hvars, avars>>

\* merge_contexts: get_context for each type in turn; the data found, in order
RECURSIVE MergeContexts(_, _, _)
MergeContexts(cur, types, t) ==
    IF types = <<>> THEN [ret |-> <<>>, current |-> cur]
    ELSE LET g    == GetContext(cur, Head(types), t)
             rest == MergeContexts(g.current, Tail(types), t)
         IN  [ret |-> (IF g.ret = NoContext THEN <<>> ELSE <<g.ret.data>>) \o rest.ret,
              current |-> rest.current]

merge_contexts(context_types) ==
    LET m == MergeContexts(current_context, context_types, now)
    IN  /\ current_context' = m.current
        /\ clast' = [op |-> "merge_contexts", type |-> "none", at |-> now, ret |-> m.ret]
        /\ UNCHANGED <<now, context_ttl, context_history>>
        /\ UNCHANGED <<gstate, mvars, svars, lvars, hvars, avars>>

\* summarize_context: len(self.current_context) is read before get_context
\* purges; context_type "none" is None
summarize_context(context_type) ==
    LET active == Cardinality({ty \in ContextTypes : current_context[ty] # NoContext})
        g      == IF context_type = "none"
                  THEN [ret |-> NoContext, current |-> current_context]
                  ELSE GetContext(current_context, context_type, now)
    IN  /\ current_context' = g.current
        /\ clast' = [op |-> "summarize_context", type |-> context_type, at |-> now,
                     ret |-> [active_contexts |-> active, context |-> g.ret]]
        /\ UNCHANGED <<now, context_ttl, context_history>>
        /\ UNCHANGED <<gstate, mvars, svars, lvars, hvars, avars>>

\* history[-limit:]
LastEntries(h, limit) ==
    IF limit >= Len(h) THEN h ELSE SubSeq(h, Len(h) - limit + 1, Len(h))

\* get_context_history: "if context_type", "if limit"; limit None or 0 does
\* not truncate
GetContextHistory(h, context_type, limit) ==
    LET history == IF context_type = "none" THEN h
                   ELSE SelectSeq(h, LAMBDA ctx : ctx.type = context_type)
    IN  IF limit # None /\ limit # 0 THEN LastEntries(history, limit) ELSE history

get_context_history(context_type, limit) ==
    /\ clast' = [op |-> "get_context_history", type |-> context_type, at |-> now,
                 ret |-> GetContextHistory(context_history, context_type, limit)]
    /\ UNCHANGED <<now, context_ttl, current_context, context_history>>
    /\ UNCHANGED <<gstate, mvars, svars, lvars, hvars, avars>>

CtxTick ==
    /\ now < MaxCtxTime
    /\ now' = now + 1
    /\ UNCHANGED <<gstate, mvars, cvars, svars, lvars, hvars, avars>>

AddContextCall ==
    /\ Len(context_history) < MaxContexts
    /\ \E ty \in ContextTypes, d \in ContextData, ttl \in {None} \cup 0..MaxTtl :
          add_context(ty, d, 1, ttl)

GetContextCall == \E ty \in ContextTypes : get_context(ty)

MergeContextsCall ==
    \E tys \in {<<"market", "social">>, <<"social", "market">>} : merge_contexts(tys)

ContextNext ==
    \/ CtxTick
    \/ AddContextCall
    \/ GetContextCall
    \/ MergeContextsCall

\* the context_type arguments of summarize_context and get_context_history
OptionalContextTypes == ContextTypes \cup {"none"}

HistoryLimits == {None, 0, 1, 2}

SummarizeContextCall == \E ty \in OptionalContextTypes : summarize_context(ty)

GetContextHistoryCall ==
    \E ty \in OptionalContextTypes, limit \in HistoryLimits : get_context_history(ty, limit)

ContextReadsNext ==
    \/ CtxTick
    \/ AddContextCall
    \/ GetContextCall
    \/ MergeContextsCall
    \/ SummarizeContextCall
    \/ GetContextHistoryCall

-----------------------------------------------------------------------------
(* LearningManager._calculate_similarity *)

Keys == {"trend", "volume"}
Values == {1, 2}

\* the dicts over Keys with values in Values
Dicts == UNION {[K -> Values] : K \in SUBSET Keys}

\* matching_values / len(total_keys) with len(context1) as the divisor
SimilarityOverFirst(c1, c2) ==
    LET matching == Cardinality({k \in (DOMAIN c1) \cup (DOMAIN c2) :
                        k \in DOMAIN c1 /\ k \in DOMAIN c2 /\ c1[k] = c2[k]})
    IN  IF DOMAIN c1 # {} THEN <<matching, Cardinality(DOMAIN c1)>> ELSE <<0, 1>>

\* _calculate_similarity: the quotient as <<numerator, denominator>>; 0.0 is <<0, 1>>
calculate_similarity(c1, c2) ==
    LET total_keys == (DOMAIN c1) \cup (DOMAIN c2)
        matching   == Cardinality({k \in total_keys :
                          k \in DOMAIN c1 /\ k \in DOMAIN c2 /\ c1[k] = c2[k]})
    IN  IF total_keys # {} THEN <<matching, Cardinality(total_keys)>> ELSE <<0, 1>>

\* equality of two quotients
SameQuotient(p, q) == p[1] * q[2] = q[1] * p[2]

SimilarityInit(C) ==
    /\ context1 \in C
    /\ context2 \in C
    /\ similarity = <<>>

CalculateSimilarityCall ==
    /\ similarity = <<>>
    /\ similarity' = calculate_similarity(context1, context2)
    /\ UNCHANGED <<context1, context2, now>>
    /\ UNCHANGED <<gstate, mvars, cvars, lvars, hvars, avars>>

-----------------------------------------------------------------------------
(* LearningManager: experiences, similar experiences, recommendation *)

ExperienceTypes == {"type_a", "type_b"}
Actions == {"buy", "sell"}

\* limit: int = 5 of get_similar_experiences
DefaultLimit == 5

\* success_score and importance, floats, in units of 1/10
SuccessScores == {0, 5, 7, 10}
Importances == {1, 5}

\* self.patterns is not set by __init__
NoPatterns == "unset"

\* LearningManager(): experiences = []; es is the list the attribute holds
LearningInit(es) ==
    /\ experiences = es
    /\ patterns = NoPatterns
    /\ llast = [op |-> "init", result |-> "ok", ret |-> <<>>, args |-> <<>>]

\* the experience record_experience builds: the keyword arguments it passes
\* to LearningExperience
Experience(exp_type, action, context, success_score, importance) ==
    [type |-> exp_type, action |-> action, context |-> context,
     success_score |-> success_score, importance |-> importance]

\* LearningExperience.__init__(action, context, outcome, reward, learning_type)
\* accepts none of type, timestamp, success_score, importance, metadata
ConstructorAccepts(keywords) ==
    keywords \subseteq {"action", "context", "outcome", "reward", "learning_type"}

\* record_experience: the constructor call raises TypeError, which the handler
\* logs and re-raises before anything is appended
record_experience(exp_type, action, context, success_score, importance) ==
    LET experience == Experience(exp_type, action, context, success_score, importance)
        built      == ConstructorAccepts({"type", "action", "context", "outcome",
                                          "timestamp", "success_score",
                                          "importance", "metadata"})
    IN  /\ experiences' = IF built THEN Append(experiences, experience) ELSE experiences
        /\ patterns' = patterns
        /\ llast' = [op |-> "record_experience",
                     result |-> IF built THEN "AttributeError" ELSE "TypeError",
                     ret |-> <<>>, args |-> experience]
        /\ UNCHANGED <<now, gstate, mvars, cvars, svars, hvars, avars>>

\* p < q for two quotients <<numerator, denominator>>
QuotientLess(p, q) == p[1] * q[2] < q[1] * p[2]

\* list.sort(key = similarity, reverse = True) is stable: x goes behind every
\* element that is at least as similar; the same with x placed in front of
\* the elements that are exactly as similar
RECURSIVE InsertBySimilarityTiesFirst(_, _, _)
InsertBySimilarityTiesFirst(s, x, sim) ==
    IF s = <<>> THEN <<x>>
    ELSE IF QuotientLess(sim[x], sim[Head(s)])
         THEN <<Head(s)>> \o InsertBySimilarityTiesFirst(Tail(s), x, sim)
         ELSE <<x>> \o s

RECURSIVE InsertBySimilarity(_, _, _)
InsertBySimilarity(s, x, sim) ==
    IF s = <<>> THEN <<x>>
    ELSE IF QuotientLess(sim[Head(s)], sim[x])
         THEN <<x>> \o s
         ELSE <<Head(s)>> \o InsertBySimilarity(Tail(s), x, sim)

RECURSIVE SortBySimilarity(_, _)
SortBySimilarity(s, sim) ==
    IF s = <<>> THEN <<>>
    ELSE InsertBySimilarity(SortBySimilarity(SubSeq(s, 1, Len(s) - 1), sim),
                            s[Len(s)], sim)

\* get_similar_experiences, as positions in the experiences list;
\* exp_type "none" is None
GetSimilarExperiences(es, context, exp_type, limit) ==
    LET relevant == SelectSeq([i \in DOMAIN es |-> i],
                        LAMBDA i : exp_type = "none" \/ es[i].type = exp_type)
        sim      == [i \in DOMAIN es |-> calculate_similarity(context, es[i].context)]
    IN  Prefix(SortBySimilarity(relevant, sim), limit)

get_similar_experiences(context, exp_type, limit) ==
    /\ llast' = [op |-> "get_similar_experiences", result |-> "ok",
                 ret |-> GetSimilarExperiences(experiences, context, exp_type, limit),
                 args |-> [context |-> context, type |-> exp_type, limit |-> limit]]
    /\ UNCHANGED <<experiences, patterns>>
    /\ UNCHANGED <<now, gstate, mvars, cvars, svars, hvars, avars>>

\* the keys of action_scores in insertion order
RECURSIVE ActionsInOrder(_, _)
ActionsInOrder(es, similar) ==
    IF similar = <<>> THEN <<>>
    ELSE LET front == ActionsInOrder(es, SubSeq(similar, 1, Len(similar) - 1))
             a     == es[similar[Len(similar)]].action
         IN  IF a \in Range(front) THEN front ELSE Append(front, a)

RECURSIVE SumOver(_, _)
SumOver(f, S) ==
    IF S = {} THEN 0
    ELSE LET x == CHOOSE y \in S : TRUE IN f[x] + SumOver(f, S \ {x})

\* action_scores[action]: count, total_score, importance
ActionScore(es, similar, action) ==
    LET of == {i \in Range(similar) : es[i].action = action}
    IN  [count       |-> Cardinality(of),
         total_score |-> SumOver([i \in DOMAIN es |-> es[i].success_score], of),
         importance  |-> SumOver([i \in DOMAIN es |-> es[i].importance], of)]

\* total_score / count of x is greater than that of y, importance left out
ScoreGreaterByMean(x, y) ==
    QuotientLess(<<y.total_score, y.count>>, <<x.total_score, x.count>>)

\* (total_score / count, importance) of x is greater than that of y
ScoreGreater(x, y) ==
    \/ QuotientLess(<<y.total_score, y.count>>, <<x.total_score, x.count>>)
    \/ /\ x.total_score * y.count = y.total_score * x.count
       /\ x.importance > y.importance

\* max(...) keeps the first of the greatest items
RECURSIVE BestAction(_, _)
BestAction(acts, score) ==
    IF Len(acts) = 1 THEN acts[1]
    ELSE LET best == BestAction(SubSeq(acts, 1, Len(acts) - 1), score)
             a    == acts[Len(acts)]
         IN  IF ScoreGreater(score[a], score[best]) THEN a ELSE best

\* get_recommendation: confidence as the quotient <<total_score, count>>
GetRecommendation(es, context, exp_type) ==
    LET similar == GetSimilarExperiences(es, context, exp_type, DefaultLimit)
        acts    == ActionsInOrder(es, similar)
        score   == [a \in Range(acts) |-> ActionScore(es, similar, a)]
        best    == BestAction(acts, score)
    IN  IF similar = <<>>
        THEN [confidence |-> <<0, 1>>, recommendation |-> "none",
              supporting_experiences |-> 0]
        ELSE [confidence |-> <<score[best].total_score, score[best].count>>,
              recommendation |-> best,
              supporting_experiences |-> Len(similar)]

get_recommendation(context, exp_type) ==
    /\ llast' = [op |-> "get_recommendation", result |-> "ok",
                 ret |-> GetRecommendation(experiences, context, exp_type),
                 args |-> [context |-> context, type |-> exp_type]]
    /\ UNCHANGED <<experiences, patterns>>
    /\ UNCHANGED <<now, gstate, mvars, cvars, svars, hvars, avars>>

\* the contexts of queries and of stored experiences
QueryContexts == {[trend |-> 1], [trend |-> 1, volume |-> 1]}
StoredContexts == {[trend |-> 1], [trend |-> 2], [trend |-> 1, volume |-> 1]}

OptionalExperienceTypes == ExperienceTypes \cup {"none"}
SimilarLimits == {0, 1, 2, DefaultLimit}

RecordExperienceCall ==
    \E ty \in ExperienceTypes, a \in Actions, c \in StoredContexts,
       sc \in SuccessScores, imp \in Importances :
          record_experience(ty, a, c, sc, imp)

GetSimilarExperiencesCall ==
    \E c \in QueryContexts, ty \in OptionalExperienceTypes, limit \in SimilarLimits :
          get_similar_experiences(c, ty, limit)

GetRecommendationCall ==
    \E c \in QueryContexts, ty \in ExperienceTypes : get_recommendation(c, ty)

LearningNext ==
    \/ RecordExperienceCall
    \/ GetSimilarExperiencesCall
    \/ GetRecommendationCall

\* experiences that differ in what get_similar_experiences reads
SimilarExperiences ==
    {Experience(ty, "buy", c, 10, 5) : ty \in ExperienceTypes, c \in StoredContexts}

\* experiences that differ in what get_recommendation aggregates
RecommendExperiences ==
    {Experience("type_a", a, [trend |-> 1], p[1], p[2]) :
        a \in Actions, p \in {<<0, 1>>, <<10, 5>>}}

-----------------------------------------------------------------------------
(* ErrorHandler (utils/error_handler.py) *)

\* type(error).__name__ of the exceptions handled: AttributeError is what a
\* call of a method the object does not have raises, RuntimeError is what
\* get_current_context raises before initialize
ErrorTypes == {"AttributeError", "RuntimeError"}

\* the classes the exceptions derive from Exception through
IsException(e) == e \in ErrorTypes

\* no exception, no retry function
Absent == "none"

\* retry_function: a coroutine function that returns, or one that raises
RetryFunctions == {"returns", "raises"}

OptionalRetryFunctions == RetryFunctions \cup {Absent}

\* config.get('max_retries', 3)
DefaultMaxRetries == 3

\* ErrorHandler(config): error_counts = {}, max_retries from the config
ErrorHandlerInit(mr) ==
    /\ error_counts = [t \in ErrorTypes |-> 0]
    /\ max_retries = mr
    /\ retries = [t \in ErrorTypes |-> 0]
    /\ hlast = [op |-> "init", error_type |-> Absent, retry_function |-> Absent,
                invoked |-> 0, raised |-> FALSE]

\* _track_error: the count of the type is incremented, or set to 1
track_error(ec, error_type) ==
    IF ec[error_type] # 0
    THEN [ec EXCEPT ![error_type] = @ + 1]
    ELSE [ec EXCEPT ![error_type] = 1]

\* _should_retry with a limit the count may reach and still be retried
should_retry_at_limit(ec, mr, error_type) ==
    IF ec[error_type] = 0 THEN TRUE
    ELSE IF ec[error_type] > mr THEN FALSE
    ELSE TRUE

\* _should_retry
should_retry(ec, mr, error_type) ==
    IF ec[error_type] = 0 THEN TRUE
    ELSE IF ec[error_type] >= mr THEN FALSE
    ELSE TRUE

\* _retry_operation: sleeps, awaits retry_function() once; an exception of
\* the retry function is logged and not raised again
retry_operation(retry_function) ==
    [invoked |-> 1, raised |-> FALSE]

\* the body of handle_error: the error is counted before the retry decision
\* is taken; raised tells whether an exception leaves handle_error
HandleError(ec, mr, error_type, retry_function) ==
    LET tracked == track_error(ec, error_type)
        retry   == IF retry_function # Absent /\ should_retry(tracked, mr, error_type)
                   THEN retry_operation(retry_function)
                   ELSE [invoked |-> 0, raised |-> FALSE]
    IN  [error_counts |-> tracked, invoked |-> retry.invoked, raised |-> retry.raised]

\* handle_error(error, context, retry_function)
handle_error(error_type, retry_function) ==
    LET r == HandleError(error_counts, max_retries, error_type, retry_function)
    IN  /\ error_counts[error_type] < MaxErrorCount
        /\ error_counts' = r.error_counts
        /\ retries' = [retries EXCEPT ![error_type] = @ + r.invoked]
        /\ hlast' = [op |-> "handle_error", error_type |-> error_type,
                     retry_function |-> retry_function,
                     invoked |-> r.invoked, raised |-> r.raised]
        /\ UNCHANGED max_retries

HandleErrorCall ==
    /\ \E error_type \in ErrorTypes, retry_function \in OptionalRetryFunctions :
          handle_error(error_type, retry_function)
    /\ UNCHANGED <<gvars, mvars, cvars, svars, lvars, avars>>

-----------------------------------------------------------------------------
(* Agent._run_cognition_loop (agent.py) *)

\* the awaited calls of the try block that the loop makes for its work
IterationSteps ==
    {"get_current_context", "get_active_goals", "get_relevant_memories",
     "analyze_goal", "determine_actions", "execute_action",
     "learn_from_action", "_generate_new_goals", "add_goal"}

\* cycle_interval default of the sleep that ends an iteration
CycleInterval == 10

\* the sleep of the except clause
LoopCooldown == 5

\* except clause that handles RuntimeError only
CatchesRuntimeError(e) == e = "RuntimeError"

\* except Exception
Catches(e) == IsException(e)

\* the loop as it is entered: nothing has been awaited yet
CognitionLoopInit ==
    /\ pc = "get_current_context"
    /\ loop_error = Absent
    /\ active_goals = 0
    /\ pending_actions = 0
    /\ new_goals = 0
    /\ slept = 0

\* the call the loop makes at pc raises: control goes to the except clause
\* when it catches the exception, and leaves the coroutine when it does not
StepRaises ==
    /\ pc \in IterationSteps
    /\ \E e \in ErrorTypes :
          /\ error_counts[e] < MaxErrorCount
          /\ loop_error' = e
          /\ pc' = IF Catches(e) THEN "handle_error" ELSE "terminated"
    /\ UNCHANGED <<active_goals, pending_actions, new_goals, slept>>
    /\ UNCHANGED <<gvars, mvars, cvars, svars, lvars, hvars>>

\* the call after the body of the for loop over active_goals
AfterGoal(n) == IF n > 0 THEN "get_relevant_memories" ELSE "_generate_new_goals"

\* current_context = await self.context.get_current_context()
GetCurrentContext ==
    /\ pc = "get_current_context"
    /\ pc' = "get_active_goals"
    /\ UNCHANGED <<loop_error, active_goals, pending_actions, new_goals, slept>>
    /\ UNCHANGED <<gvars, mvars, cvars, svars, lvars, hvars>>

\* active_goals = await self.goals.get_active_goals(); for goal in active_goals
GetActiveGoals ==
    /\ pc = "get_active_goals"
    /\ \E n \in 0..MaxActiveGoals :
          /\ active_goals' = n
          /\ pc' = AfterGoal(n)
    /\ UNCHANGED <<loop_error, pending_actions, new_goals, slept>>
    /\ UNCHANGED <<gvars, mvars, cvars, svars, lvars, hvars>>

\* relevant_memories = await self.memory.get_relevant_memories(goal, current_context)
GetRelevantMemories ==
    /\ pc = "get_relevant_memories"
    /\ pc' = "analyze_goal"
    /\ UNCHANGED <<loop_error, active_goals, pending_actions, new_goals, slept>>
    /\ UNCHANGED <<gvars, mvars, cvars, svars, lvars, hvars>>

\* analysis = await self.reasoning.analyze_goal(...)
AnalyzeGoal ==
    /\ pc = "analyze_goal"
    /\ pc' = "determine_actions"
    /\ UNCHANGED <<loop_error, active_goals, pending_actions, new_goals, slept>>
    /\ UNCHANGED <<gvars, mvars, cvars, svars, lvars, hvars>>

\* actions = await self.determine_actions(analysis); for action in actions
DetermineActions ==
    /\ pc = "determine_actions"
    /\ \E n \in 0..MaxLoopActions :
          /\ pending_actions' = n
          /\ IF n > 0
             THEN /\ pc' = "execute_action"
                  /\ UNCHANGED active_goals
             ELSE /\ active_goals' = active_goals - 1
                  /\ pc' = AfterGoal(active_goals - 1)
    /\ UNCHANGED <<loop_error, new_goals, slept>>
    /\ UNCHANGED <<gvars, mvars, cvars, svars, lvars, hvars>>

\* result = await self.execute_action(action)
ExecuteAction ==
    /\ pc = "execute_action"
    /\ pc' = "learn_from_action"
    /\ UNCHANGED <<loop_error, active_goals, pending_actions, new_goals, slept>>
    /\ UNCHANGED <<gvars, mvars, cvars, svars, lvars, hvars>>

\* await self.learning.learn_from_action(action, result): the last call of
\* the body of both for loops
LearnFromAction ==
    /\ pc = "learn_from_action"
    /\ pending_actions' = pending_actions - 1
    /\ IF pending_actions - 1 > 0
       THEN /\ pc' = "execute_action"
            /\ UNCHANGED active_goals
       ELSE /\ active_goals' = active_goals - 1
            /\ pc' = AfterGoal(active_goals - 1)
    /\ UNCHANGED <<loop_error, new_goals, slept>>
    /\ UNCHANGED <<gvars, mvars, cvars, svars, lvars, hvars>>

\* new_goals = await self._generate_new_goals(current_context); for goal in new_goals
GenerateNewGoals ==
    /\ pc = "_generate_new_goals"
    /\ \E n \in 0..MaxNewGoals :
          /\ new_goals' = n
          /\ pc' = IF n > 0 THEN "add_goal" ELSE "sleep"
    /\ UNCHANGED <<loop_error, active_goals, pending_actions, slept>>
    /\ UNCHANGED <<gvars, mvars, cvars, svars, lvars, hvars>>

\* await self.goals.add_goal(**goal)
AddGoal ==
    /\ pc = "add_goal"
    /\ new_goals' = new_goals - 1
    /\ pc' = IF new_goals - 1 > 0 THEN "add_goal" ELSE "sleep"
    /\ UNCHANGED <<loop_error, active_goals, pending_actions, slept>>
    /\ UNCHANGED <<gvars, mvars, cvars, svars, lvars, hvars>>

\* await asyncio.sleep(cycle_interval): the iteration ends, while True
\* starts the next one
SleepCycle ==
    /\ pc = "sleep"
    /\ slept' = CycleInterval
    /\ pc' = "get_current_context"
    /\ UNCHANGED <<loop_error, active_goals, pending_actions, new_goals>>
    /\ UNCHANGED <<gvars, mvars, cvars, svars, lvars, hvars>>

\* except Exception as e: await self.handle_error(e), which is
\* error_handler.handle_error(error, context) with no retry function; an
\* exception that leaves it leaves the except clause and the coroutine
HandleLoopError ==
    /\ pc = "handle_error"
    /\ handle_error(loop_error, Absent)
    /\ pc' = IF hlast'.raised THEN "terminated" ELSE "sleep_cooldown"
    /\ UNCHANGED <<loop_error, active_goals, pending_actions, new_goals, slept>>
    /\ UNCHANGED <<gvars, mvars, cvars, svars, lvars>>

\* await asyncio.sleep(5) of the except clause, then while True starts the
\* next iteration
SleepCooldown ==
    /\ pc = "sleep_cooldown"
    /\ slept' = LoopCooldown
    /\ loop_error' = Absent
    /\ pc' = "get_current_context"
    /\ UNCHANGED <<active_goals, pending_actions, new_goals>>
    /\ UNCHANGED <<gvars, mvars, cvars, svars, lvars, hvars>>

CognitionNext ==
    \/ StepRaises
    \/ GetCurrentContext
    \/ GetActiveGoals
    \/ GetRelevantMemories
    \/ AnalyzeGoal
    \/ DetermineActions
    \/ ExecuteAction
    \/ LearnFromAction
    \/ GenerateNewGoals
    \/ AddGoal
    \/ SleepCycle
    \/ HandleLoopError
    \/ SleepCooldown

-----------------------------------------------------------------------------
(* GoalManager *)

\* f"goal_{len(self.goals) + 1}_{datetime.now().timestamp()}"
GoalId(n, t) == [n |-> n, t |-> t]

\* an id no create_goal call produces
UnknownId == [n |-> 0, t |-> 0]

\* keys of self.goals
MapIds(g) == {g[i].id : i \in DOMAIN g}

\* goal_id in self.goals
InGoals(g, id) == id \in MapIds(g)

\* self.goals[goal_id], the Goal object stored under the key
Lookup(g, id) ==
    IF InGoals(g, id)
    THEN g[CHOOSE i \in DOMAIN g : g[i].id = id].obj
    ELSE 0

\* self.goals[goal_id] = goal: a new key is appended, an existing key keeps
\* its position and gets the new value
DictSet(g, id, o) ==
    IF InGoals(g, id)
    THEN [i \in DOMAIN g |-> IF g[i].id = id THEN [id |-> id, obj |-> o] ELSE g[i]]
    ELSE Append(g, [id |-> id, obj |-> o])

\* del self.goals[goal_id]
DictDel(g, id) == SelectSeq(g, LAMBDA e : e.id # id)

\* list.remove(x): removes the first occurrence
RECURSIVE RemoveFirst(_, _)
RemoveFirst(s, x) ==
    IF s = <<>> THEN <<>>
    ELSE IF Head(s) = x THEN Tail(s)
    ELSE <<Head(s)>> \o RemoveFirst(Tail(s), x)

\* the progress stored as it is given
NoClamp(p) == p

\* min(max(progress, 0.0), 1.0)
Clamp(p) == IF p < 0 THEN 0 ELSE IF p > One THEN One ELSE p

\* _check_goal_dependencies: the status it assigns
check_goal_dependencies(deps, g) ==
    IF deps = <<>> THEN "active"
    ELSE IF \E i \in DOMAIN deps : InGoals(g, deps[i]) THEN "pending"
    ELSE "active"

\* _update_dependent_goals walking every Goal object, archived ones included
update_all_dependent_goals(os, g, cid) ==
    [u \in DOMAIN os |->
        IF cid \in Range(os[u].dependencies)
        THEN LET d == RemoveFirst(os[u].dependencies, cid)
             IN  [os[u] EXCEPT !.dependencies = d,
                               !.status = check_goal_dependencies(d, g)]
        ELSE os[u]]

\* _update_dependent_goals: every goal of the map that lists the completed id
\* loses its first occurrence and is re-checked
update_dependent_goals(os, g, cid) ==
    [u \in DOMAIN os |->
        IF (\E i \in DOMAIN g : g[i].obj = u) /\ cid \in Range(os[u].dependencies)
        THEN LET d == RemoveFirst(os[u].dependencies, cid)
             IN  [os[u] EXCEPT !.dependencies = d,
                               !.status = check_goal_dependencies(d, g)]
        ELSE os[u]]

\* complete_goal without "del self.goals[goal_id]"
CompleteEffectKeepsKey(os, g, cg, id) ==
    LET o  == Lookup(g, id)
        o1 == [os EXCEPT ![o].status = "completed", ![o].progress = One]
    IN  [objs |-> update_dependent_goals(o1, g, id),
         goals |-> g,
         completed_goals |-> Append(cg, o)]

\* complete_goal without goal.progress = 1.0
CompleteEffectKeepsProgress(os, g, cg, id) ==
    LET o  == Lookup(g, id)
        o1 == [os EXCEPT ![o].status = "completed"]
        g1 == DictDel(g, id)
    IN  [objs |-> update_dependent_goals(o1, g1, id),
         goals |-> g1,
         completed_goals |-> Append(cg, o)]

\* the state after the body of complete_goal, for an id that is in the map
CompleteEffect(os, g, cg, id) ==
    LET o  == Lookup(g, id)
        o1 == [os EXCEPT ![o].status = "completed", ![o].progress = One]
        g1 == DictDel(g, id)
    IN  [objs |-> update_dependent_goals(o1, g1, id),
         goals |-> g1,
         completed_goals |-> Append(cg, o)]

KnownIds == {objs[u].id : u \in DOMAIN objs}

GoalInit ==
    /\ objs = <<>>
    /\ goals = <<>>
    /\ completed_goals = <<>>
    /\ failed_goals = <<>>
    /\ created = <<>>
    /\ last = [op |-> "init", id |-> UnknownId, result |-> "ok", obj |-> 0, arg |-> 0]

\* the not-found case returning silently instead of raising
NotFoundSwallowed(op, goal_id) ==
    /\ last' = [op |-> op, id |-> goal_id, result |-> "ok", obj |-> 0, arg |-> 0]
    /\ UNCHANGED <<now, objs, goals, completed_goals, failed_goals, created>>
    /\ UNCHANGED <<mvars, cvars, svars, lvars, hvars, avars>>

\* raise ValueError(f"Goal {goal_id} not found"): the call ends with the error
\* and has changed nothing
NotFound(op, goal_id) ==
    /\ last' = [op |-> op, id |-> goal_id, result |-> "ValueError", obj |-> 0, arg |-> 0]
    /\ UNCHANGED <<now, objs, goals, completed_goals, failed_goals, created>>
    /\ UNCHANGED <<mvars, cvars, svars, lvars, hvars, avars>>

Tick ==
    /\ now < MaxTime
    /\ now' = now + 1
    /\ UNCHANGED <<objs, goals, completed_goals, failed_goals, created, last>>
    /\ UNCHANGED <<mvars, cvars, svars, lvars, hvars, avars>>

create_goal(goal_type, priority, dependencies) ==
    /\ LET goal_id == GoalId(Len(goals) + 1, now)
           o       == Len(objs) + 1
           g1      == DictSet(goals, goal_id, o)
           goal    == [id |-> goal_id, type |-> goal_type, priority |-> priority,
                       status |-> check_goal_dependencies(dependencies, g1),
                       dependencies |-> dependencies, progress |-> 0,
                       failure_reason |-> "none"]
       IN  /\ objs' = Append(objs, goal)
           /\ goals' = g1
           /\ created' = Append(created,
                  [dependencies |-> dependencies,
                   depObjs |-> [i \in DOMAIN dependencies |-> Lookup(goals, dependencies[i])]])
           /\ last' = [op |-> "create_goal", id |-> goal_id, result |-> "ok", obj |-> o, arg |-> 0]
    /\ UNCHANGED <<now, completed_goals, failed_goals>>
    /\ UNCHANGED <<mvars, cvars, svars, lvars, hvars, avars>>

\* called with metrics = None, the default
update_goal_progress(goal_id, progress) ==
    IF ~InGoals(goals, goal_id)
    THEN NotFound("update_goal_progress", goal_id)
    ELSE LET o  == Lookup(goals, goal_id)
             o1 == [objs EXCEPT ![o].progress = Clamp(progress)]
             c  == CompleteEffect(o1, goals, completed_goals, goal_id)
         IN  /\ IF progress >= One
                THEN /\ objs' = c.objs
                     /\ goals' = c.goals
                     /\ completed_goals' = c.completed_goals
                ELSE /\ objs' = o1
                     /\ UNCHANGED <<goals, completed_goals>>
             /\ last' = [op |-> "update_goal_progress", id |-> goal_id,
                         result |-> "ok", obj |-> o, arg |-> progress]
             /\ UNCHANGED <<now, failed_goals, created>>
             /\ UNCHANGED <<mvars, cvars, svars, lvars, hvars, avars>>

complete_goal(goal_id) ==
    IF ~InGoals(goals, goal_id)
    THEN NotFound("complete_goal", goal_id)
    ELSE LET c == CompleteEffect(objs, goals, completed_goals, goal_id)
         IN  /\ objs' = c.objs
             /\ goals' = c.goals
             /\ completed_goals' = c.completed_goals
             /\ last' = [op |-> "complete_goal", id |-> goal_id, result |-> "ok", obj |-> Lookup(goals, goal_id), arg |-> 0]
             /\ UNCHANGED <<now, failed_goals, created>>
             /\ UNCHANGED <<mvars, cvars, svars, lvars, hvars, avars>>

\* fail_goal followed by _update_dependent_goals(goal_id), as complete_goal is
fail_goal_cascading(goal_id, reason) ==
    IF ~InGoals(goals, goal_id)
    THEN NotFound("fail_goal", goal_id)
    ELSE LET o  == Lookup(goals, goal_id)
             o1 == [objs EXCEPT ![o].status = "failed", ![o].failure_reason = reason]
             g1 == DictDel(goals, goal_id)
         IN  /\ objs' = update_dependent_goals(o1, g1, goal_id)
             /\ failed_goals' = Append(failed_goals, o)
             /\ goals' = g1
             /\ last' = [op |-> "fail_goal", id |-> goal_id, result |-> "ok", obj |-> o, arg |-> 0]
             /\ UNCHANGED <<now, completed_goals, created>>
             /\ UNCHANGED <<mvars, cvars, svars, lvars, hvars, avars>>

fail_goal(goal_id, reason) ==
    IF ~InGoals(goals, goal_id)
    THEN NotFound("fail_goal", goal_id)
    ELSE LET o == Lookup(goals, goal_id)
         IN  /\ objs' = [objs EXCEPT ![o].status = "failed", ![o].failure_reason = reason]
             /\ failed_goals' = Append(failed_goals, o)
             /\ goals' = DictDel(goals, goal_id)
             /\ last' = [op |-> "fail_goal", id |-> goal_id, result |-> "ok", obj |-> o, arg |-> 0]
             /\ UNCHANGED <<now, completed_goals, created>>
             /\ UNCHANGED <<mvars, cvars, svars, lvars, hvars, avars>>

\* get_active_goals: the Goal objects returned, in order
RECURSIVE InsertByPriority(_, _, _)
InsertByPriority(s, o, os) ==
    IF s = <<>> THEN <<o>>
    ELSE IF os[Head(s)].priority < os[o].priority THEN <<o>> \o s
    ELSE <<Head(s)>> \o InsertByPriority(Tail(s), o, os)

RECURSIVE SortByPriorityDesc(_, _)
SortByPriorityDesc(s, os) ==
    IF s = <<>> THEN <<>>
    ELSE InsertByPriority(SortByPriorityDesc(SubSeq(s, 1, Len(s) - 1), os), s[Len(s)], os)

get_active_goals(os, g, goal_type) ==
    LET act == SelectSeq([i \in DOMAIN g |-> g[i].obj],
                         LAMBDA o : os[o].status = "active")
        flt == IF goal_type = "any" THEN act
               ELSE SelectSeq(act, LAMBDA o : os[o].type = goal_type)
    IN  SortByPriorityDesc(flt, os)

\* a call of get_active_goals: it returns get_active_goals(objs, goals, goal_type)
get_active_goals_call(goal_type) ==
    /\ last' = [op |-> "get_active_goals", id |-> UnknownId, result |-> "ok",
                obj |-> 0, arg |-> 0]
    /\ UNCHANGED <<now, objs, goals, completed_goals, failed_goals, created>>
    /\ UNCHANGED <<mvars, cvars, svars, lvars, hvars, avars>>

CreateGoalCall ==
    /\ Len(objs) < MaxGoals
    /\ \E ty \in GoalTypes, p \in Priorities, d \in DepInputs(objs) :
        create_goal(ty, p, [i \in DOMAIN d |-> objs[d[i]].id])

UpdateGoalProgressCall ==
    \E id \in KnownIds \cup {UnknownId}, p \in ProgressInputs :
        update_goal_progress(id, p)

CompleteGoalCall == \E id \in KnownIds \cup {UnknownId} : complete_goal(id)

FailGoalCall == \E id \in KnownIds \cup {UnknownId}, r \in Reasons : fail_goal(id, r)

GoalNext ==
    \/ Tick
    \/ CreateGoalCall
    \/ UpdateGoalProgressCall
    \/ CompleteGoalCall
    \/ FailGoalCall

\* a GoalManager, next to an idle MemoryManager and ContextManager
Init ==
    /\ now = 0
    /\ GoalInit
    /\ MemoryInit(MaxLimit, MaxLimit, 1)
    /\ ContextInit(MaxTtl)
    /\ SimilarityInit({<<>>})
    /\ LearningInit(<<>>)
    /\ ErrorHandlerInit(DefaultMaxRetries)
    /\ CognitionLoopInit

Spec == Init /\ [][GoalNext]_vars

\* A burst of calls that all read the same clock value
BurstCreateGoalCall ==
    /\ Len(objs) < MaxBurstGoals
    /\ \E ty \in GoalTypes, p \in Priorities, d \in DepInputs(objs) :
           create_goal(ty, p, [i \in DOMAIN d |-> objs[d[i]].id])

BurstNext ==
    \/ BurstCreateGoalCall
    \/ UpdateGoalProgressCall
    \/ CompleteGoalCall

SpecBurst == Init /\ [][BurstNext]_vars

\* A burst of calls in which goals with several dependencies see some fail
FailCreateGoalCall ==
    /\ Len(objs) < MaxFailGoals
    /\ \E ty \in GoalTypes, p \in Priorities, d \in DepInputs(objs) :
           create_goal(ty, p, [i \in DOMAIN d |-> objs[d[i]].id])

CompleteByProgressCall ==
    \E id \in KnownIds \cup {UnknownId} : update_goal_progress(id, One)

FailNext ==
    \/ FailCreateGoalCall
    \/ CompleteByProgressCall
    \/ CompleteGoalCall
    \/ FailGoalCall

SpecFail == Init /\ [][FailNext]_vars

\* A burst of calls on goals of two priorities, listed by get_active_goals;
\* the second goal may depend on the first
RankedPriorities == {1, 2}

\* the goal_type arguments of get_active_goals; "any" is None
QueryTypes == {"market_analysis", "learning", "any"}

RankedCreateGoalCall ==
    /\ Len(objs) < MaxRankedGoals
    /\ \E ty \in GoalTypes, p \in RankedPriorities,
          d \in {s \in DepInputs(objs) : Len(s) = 0 \/ (Len(s) = 1 /\ Len(objs) = 1)} :
           create_goal(ty, p, [i \in DOMAIN d |-> objs[d[i]].id])

GetActiveGoalsCall == \E ty \in QueryTypes : get_active_goals_call(ty)

RankedNext ==
    \/ RankedCreateGoalCall
    \/ CompleteGoalCall
    \/ GetActiveGoalsCall

SpecRanked == Init /\ [][RankedNext]_vars

\* short-term stores interleaved with retrievals
StoreNext ==
    \/ Tick
    \/ StoreShortTermCall
    \/ RetrieveByTagsCall

\* a MemoryManager with a short-term limit of at least 1
StoreInit ==
    /\ now = 0
    /\ GoalInit
    /\ \E stl \in 1..MaxLimit : MemoryInit(stl, MaxLimit, 1)
    /\ ContextInit(MaxTtl)
    /\ SimilarityInit({<<>>})
    /\ LearningInit(<<>>)
    /\ ErrorHandlerInit(DefaultMaxRetries)
    /\ CognitionLoopInit

SpecStore == StoreInit /\ [][StoreNext]_vars

\* a MemoryManager with short_term_limit = 0
ZeroLimitInit ==
    /\ now = 0
    /\ GoalInit
    /\ MemoryInit(0, MaxLimit, 1)
    /\ ContextInit(MaxTtl)
    /\ SimilarityInit({<<>>})
    /\ LearningInit(<<>>)
    /\ ErrorHandlerInit(DefaultMaxRetries)
    /\ CognitionLoopInit

SpecZeroLimit == ZeroLimitInit /\ [][StoreNext]_vars

MemoryNext ==
    \/ Tick
    \/ StoreMemoryCall
    \/ RetrieveByTagsCall
    \/ GetRecentMemoriesCall
    \/ ConsolidateMemoriesCall
    \/ ClearMemoryCall

\* a MemoryManager with a decay interval of 0 or 1
MemoryManagerInit ==
    /\ now = 0
    /\ GoalInit
    /\ \E di \in 0..1 : MemoryInit(MaxLimit, MaxLimit, di)
    /\ ContextInit(MaxTtl)
    /\ SimilarityInit({<<>>})
    /\ LearningInit(<<>>)
    /\ ErrorHandlerInit(DefaultMaxRetries)
    /\ CognitionLoopInit

SpecMemory == MemoryManagerInit /\ [][MemoryNext]_vars

\* stores and consolidations only
ConsolidateNext ==
    \/ Tick
    \/ StoreMemoryCall
    \/ ConsolidateMemoriesCall

SpecConsolidate == MemoryManagerInit /\ [][ConsolidateNext]_vars

\* a ContextManager without and with a default ttl
ContextManagerInit ==
    /\ now = 0
    /\ GoalInit
    /\ MemoryInit(MaxLimit, MaxLimit, 1)
    /\ \E ttl \in {0, MaxTtl} : ContextInit(ttl)
    /\ SimilarityInit({<<>>})
    /\ LearningInit(<<>>)
    /\ ErrorHandlerInit(DefaultMaxRetries)
    /\ CognitionLoopInit

SpecContext == ContextManagerInit /\ [][ContextNext]_vars

SpecContextReads == ContextManagerInit /\ [][ContextReadsNext]_vars

\* every pair of contexts over Keys and Values
PairsInit ==
    /\ now = 0
    /\ GoalInit
    /\ MemoryInit(MaxLimit, MaxLimit, 1)
    /\ ContextInit(MaxTtl)
    /\ SimilarityInit(Dicts)
    /\ LearningInit(<<>>)
    /\ ErrorHandlerInit(DefaultMaxRetries)
    /\ CognitionLoopInit

SpecSimilarity == PairsInit /\ [][CalculateSimilarityCall]_vars


\* a LearningManager as constructed
LearningManagerInit ==
    /\ now = 0
    /\ GoalInit
    /\ MemoryInit(MaxLimit, MaxLimit, 1)
    /\ ContextInit(MaxTtl)
    /\ SimilarityInit({<<>>})
    /\ LearningInit(<<>>)
    /\ ErrorHandlerInit(DefaultMaxRetries)
    /\ CognitionLoopInit

SpecLearning == LearningManagerInit /\ [][LearningNext]_vars

\* get_similar_experiences over the lists the experiences attribute can hold
SimilarInit ==
    /\ now = 0
    /\ GoalInit
    /\ MemoryInit(MaxLimit, MaxLimit, 1)
    /\ ContextInit(MaxTtl)
    /\ SimilarityInit({<<>>})
    /\ \E es \in SeqsUpTo(SimilarExperiences, MaxExperiences) : LearningInit(es)
    /\ ErrorHandlerInit(DefaultMaxRetries)
    /\ CognitionLoopInit

SpecSimilar == SimilarInit /\ [][GetSimilarExperiencesCall]_vars

\* get_recommendation over the lists the experiences attribute can hold
RecommendInit ==
    /\ now = 0
    /\ GoalInit
    /\ MemoryInit(MaxLimit, MaxLimit, 1)
    /\ ContextInit(MaxTtl)
    /\ SimilarityInit({<<>>})
    /\ \E es \in SeqsUpTo(RecommendExperiences, MaxRecommended) : LearningInit(es)
    /\ ErrorHandlerInit(DefaultMaxRetries)
    /\ CognitionLoopInit

SpecRecommend == RecommendInit /\ [][GetRecommendationCall]_vars

\* an ErrorHandler as constructed, for the max_retries a config can give
ErrorHandlerRunInit ==
    /\ now = 0
    /\ GoalInit
    /\ MemoryInit(MaxLimit, MaxLimit, 1)
    /\ ContextInit(MaxTtl)
    /\ SimilarityInit({<<>>})
    /\ LearningInit(<<>>)
    /\ \E mr \in 0..DefaultMaxRetries : ErrorHandlerInit(mr)
    /\ CognitionLoopInit

SpecErrorHandler == ErrorHandlerRunInit /\ [][HandleErrorCall]_vars

\* the cognition loop of an Agent as start() enters it: the ErrorHandler is
\* built from the default error_handling settings
CognitionInit ==
    /\ now = 0
    /\ GoalInit
    /\ MemoryInit(MaxLimit, MaxLimit, 1)
    /\ ContextInit(MaxTtl)
    /\ SimilarityInit({<<>>})
    /\ LearningInit(<<>>)
    /\ ErrorHandlerInit(DefaultMaxRetries)
    /\ CognitionLoopInit

\* the event loop resumes the coroutine when what it awaits is done: the
\* handler call without a retry function awaits nothing outside the
\* process, and the cooldown sleep ends when its timer fires
SpecCognition ==
    /\ CognitionInit
    /\ [][CognitionNext]_vars
    /\ WF_vars(HandleLoopError)
    /\ WF_vars(SleepCooldown)

-----------------------------------------------------------------------------
(* GoalManager: properties *)

\* the Goal objects held in self.goals, in dict order
MapObjs == [i \in DOMAIN goals |-> goals[i].obj]

InMap(o) == o \in Range(MapObjs)

\* C1: a goal G created with dependencies [A, B] while A and B are in the goals
\* map is pending while A or B is in the map, and once A and B are both
\* completed G is active, is returned by get_active_goals, and A and B are in
\* the completed archive with progress 1.0 (G itself not completed or failed).
C1_DependencyActivation ==
    \A g \in DOMAIN objs :
        LET d == created[g].depObjs
        IN  (/\ Len(d) = 2
             /\ d[1] # 0 /\ d[2] # 0 /\ d[1] # d[2]
             /\ objs[g].status \notin {"completed", "failed"})
            => /\ (InMap(d[1]) \/ InMap(d[2])) => objs[g].status = "pending"
               /\ (d[1] \in Range(completed_goals) /\ d[2] \in Range(completed_goals))
                  => /\ objs[g].status = "active"
                     /\ g \in Range(get_active_goals(objs, goals, "any"))
                     /\ objs[d[1]].progress = One
                     /\ objs[d[2]].progress = One

\* C2: every goal in the goals map is active iff none of its dependency ids is
\* a key of the goals map.
C2_ActiveIffResolved ==
    \A i \in DOMAIN goals :
        LET G == objs[goals[i].obj]
        IN  (G.status = "active")
            <=> (\A k \in DOMAIN G.dependencies : ~(G.dependencies[k] \in MapIds(goals)))

\* the last call was update_goal_progress with progress >= 1.0 on a goal of the
\* map: it returned and completed the goal
JustCompletedByUpdate ==
    /\ last.op = "update_goal_progress"
    /\ last.result = "ok"
    /\ completed_goals # <<>>
    /\ completed_goals[Len(completed_goals)] = last.obj

\* C3 (as stated): update_goal_progress(id, 1.0) called a second time in a row
\* does not raise, and the goal is in the completed archive exactly once.
C3_SecondCallDoesNotRaise ==
    [][(JustCompletedByUpdate /\ update_goal_progress(last.id, One))
        => (last'.result = "ok" /\ Count(completed_goals', last.obj) = 1)]_vars

\* C3 (amended): update_goal_progress(id, 1.0) on a goal of the goals map
\* returns and puts the goal in the completed archive exactly once; the same
\* call made again right after it raises the not-found ValueError and leaves
\* the archive as it is, the goal still in it exactly once.
C3_SecondCallRaisesNotFound ==
    [][/\ (last'.op = "update_goal_progress" /\ now' = now /\ last'.id \in MapIds(goals))
          => last'.result = "ok"
       /\ JustCompletedByUpdate' => Count(completed_goals', last'.obj) = 1
       /\ (JustCompletedByUpdate /\ last'.op = "update_goal_progress"
             /\ last'.id = last.id /\ now' = now)
          => /\ last'.result = "ValueError"
             /\ completed_goals' = completed_goals
             /\ Count(completed_goals', last.obj) = 1]_vars

\* C3 witness: an update_goal_progress call has raised not-found for the id of
\* a goal that is in the completed archive exactly once
C3_Witness ==
    /\ last.op = "update_goal_progress"
    /\ last.result = "ValueError"
    /\ \E o \in Range(completed_goals) :
          objs[o].id = last.id /\ Count(completed_goals, o) = 1

\* C9: update_goal_progress, complete_goal and fail_goal called with an id that
\* is not a key of the goals map raise the not-found ValueError and change
\* neither the goals map, nor an archive, nor any Goal object.
C9_NotFoundLeavesStateUnchanged ==
    [][(/\ last'.op \in {"update_goal_progress", "complete_goal", "fail_goal"}
        /\ now' = now
        /\ last'.id \notin MapIds(goals))
       => /\ last'.result = "ValueError"
          /\ UNCHANGED <<objs, goals, completed_goals, failed_goals>>]_vars

\* C9 witness: a call on the id of an archived goal has raised not-found
C9_Witness ==
    /\ last.op \in {"update_goal_progress", "complete_goal", "fail_goal"}
    /\ last.result = "ValueError"
    /\ \E o \in Range(completed_goals) \cup Range(failed_goals) : objs[o].id = last.id

\* C10: every Goal object ever returned by create_goal is in exactly one of the
\* goals map, the completed archive and the failed archive, exactly once.
C10_GoalsOnlyMoved ==
    \A o \in DOMAIN objs :
        Count(MapObjs, o) + Count(completed_goals, o) + Count(failed_goals, o) = 1

\* C11: completed and failed are terminal: a goal in the completed
\* (respectively failed) archive stays in that archive with status completed
\* (respectively failed); no operation returns it to the goals map, moves it to
\* the other archive or changes its progress.
C11_ArchivesTerminal ==
    [][/\ \A i \in DOMAIN completed_goals :
             LET o == completed_goals[i]
             IN  /\ \/ completed_goals' = completed_goals
                     \/ Cardinality({j \in DOMAIN completed_goals' : completed_goals'[j] = o})
                           = Cardinality({j \in DOMAIN completed_goals : completed_goals[j] = o})
                 /\ objs'[o].status = "completed"
                 /\ objs'[o].progress = objs[o].progress
                 /\ \A j \in DOMAIN goals' : goals'[j].obj # o
                 /\ \A j \in DOMAIN failed_goals' : failed_goals'[j] # o
       /\ \A i \in DOMAIN failed_goals :
             LET o == failed_goals[i]
             IN  /\ \/ failed_goals' = failed_goals
                     \/ Cardinality({j \in DOMAIN failed_goals' : failed_goals'[j] = o})
                           = Cardinality({j \in DOMAIN failed_goals : failed_goals[j] = o})
                 /\ objs'[o].status = "failed"
                 /\ objs'[o].progress = objs[o].progress
                 /\ \A j \in DOMAIN goals' : goals'[j].obj # o
                 /\ \A j \in DOMAIN completed_goals' : completed_goals'[j] # o
       /\ \A i \in DOMAIN completed_goals' : objs'[completed_goals'[i]].status = "completed"
       /\ \A i \in DOMAIN failed_goals' : objs'[failed_goals'[i]].status = "failed"]_vars

\* C11 witness: a call on the id of a completed goal has returned, having acted
\* on another goal that carries the same id, and the completed goal is still in
\* its archive
C11_Witness ==
    /\ last.op \in {"update_goal_progress", "complete_goal", "fail_goal"}
    /\ last.result = "ok"
    /\ \E o \in Range(completed_goals) :
          /\ objs[o].id = last.id
          /\ o # last.obj
          /\ objs[o].status = "completed"

\* C12: a goal reaches the completed archive only from status active: no
\* operation moves a goal to the completed archive while its status is pending.
C12_CompletedOnlyFromActive ==
    [][\A o \in DOMAIN objs :
          (o \in Range(completed_goals') /\ o \notin Range(completed_goals))
          => objs[o].status = "active"]_vars

\* the Goal objects that were in the goals map under an id the goal was created
\* with as a dependency
CreatedOn(g) == {created[g].depObjs[i] : i \in DOMAIN created[g].depObjs} \ {0}

ActiveOfType(goal_type) ==
    {o \in Range(MapObjs) :
        /\ objs[o].status = "active"
        /\ goal_type = "any" \/ objs[o].type = goal_type}

\* C17: get_active_goals(type) returns exactly the goals of the goals map with
\* status active (of the type, when one is given), in non-increasing priority
\* order, goals of equal priority in the order they were created; it changes
\* no state.
C17_ActiveGoalsOrdered ==
    [][(last'.op = "get_active_goals")
       => /\ UNCHANGED <<objs, goals, completed_goals, failed_goals>>
          /\ \A ty \in QueryTypes :
                LET r == get_active_goals(objs', goals', ty)
                IN  /\ Range(r) = ActiveOfType(ty)'
                    /\ Len(r) = Cardinality(ActiveOfType(ty)')
                    /\ \A i, j \in DOMAIN r :
                          i < j => \/ objs'[r[i]].priority > objs'[r[j]].priority
                                   \/ /\ objs'[r[i]].priority = objs'[r[j]].priority
                                      /\ r[i] < r[j]]_vars

\* C14: every create_goal call assigns an id different from the id of every
\* goal created before it, in the goals map or archived.
C14_IdsUnique ==
    \A a, b \in DOMAIN objs : a # b => objs[a].id # objs[b].id

C16_ProgressMonotonic ==
    [][\A o \in Range(MapObjs) \cap Range(MapObjs') :
          objs'[o].progress >= objs[o].progress]_vars


-----------------------------------------------------------------------------
(* MemoryManager: properties *)

\* the order (priority, then access_count, then timestamp): a is not below b
NotBelow(a, b) ==
    \/ a.priority > b.priority
    \/ a.priority = b.priority /\ a.access_count > b.access_count
    \/ a.priority = b.priority /\ a.access_count = b.access_count
       /\ a.timestamp >= b.timestamp

ShortTermStored == {m \in DOMAIN mems : mems[m].type = "short_term"}

ShortTermHeld == Range(memories["short_term"])

\* C4: with a short-term limit L >= 1, after every store_memory call of type
\* short_term and every retrieval the short-term store holds at most L
\* memories, and once more than L have been stored it holds exactly L, none of
\* them below an evicted one in the order (priority, access_count, timestamp).
C4_EvictionBound ==
    short_term_limit >= 1 =>
        /\ Len(memories["short_term"]) <= short_term_limit
        /\ Cardinality(ShortTermHeld) = Len(memories["short_term"])
        /\ ShortTermHeld \subseteq ShortTermStored
        /\ Cardinality(ShortTermStored) <= short_term_limit
              => ShortTermHeld = ShortTermStored
        /\ Cardinality(ShortTermStored) > short_term_limit
              => /\ Len(memories["short_term"]) = short_term_limit
                 /\ \A r \in ShortTermHeld, e \in ShortTermStored \ ShortTermHeld :
                       NotBelow(mems[r], mems[e])

\* C4 witness: more than L memories were stored and a memory was evicted that
\* is newer than a retained one of higher priority
C4_Witness ==
    /\ short_term_limit >= 1
    /\ Cardinality(ShortTermStored) > short_term_limit
    /\ \E r \in ShortTermHeld, e \in ShortTermStored \ ShortTermHeld :
          mems[e].timestamp > mems[r].timestamp /\ mems[e].priority < mems[r].priority

\* the memories held in a store
Held == UNION {Range(memories[t]) : t \in Range(MemoryTypes)}

\* the stored memories that carry one of the tags and match the type
Tagged(tags, memory_type) ==
    {m \in Held : /\ Range(mems[m].tags) \cap Range(tags) # {}
                  /\ memory_type = "none" \/ mems[m].type = memory_type}

\* C7: retrieve_by_tags(tags, type) returns exactly the stored memories that
\* carry one of the query tags and match the type, by priority descending and,
\* within a priority, by timestamp descending.
C7_RetrieveByTagsOrdered ==
    [][\A tg \in TagInputs, ty \in {"none", "short_term"} :
          retrieve_by_tags(tg, ty, None)
          => /\ mlast'.result = "ok"
             /\ Range(mlast'.ret) = Tagged(tg, ty)
             /\ Len(mlast'.ret) = Cardinality(Tagged(tg, ty))
             /\ \A i, j \in DOMAIN mlast'.ret :
                   i < j => \/ mems[mlast'.ret[i]].priority > mems[mlast'.ret[j]].priority
                            \/ /\ mems[mlast'.ret[i]].priority = mems[mlast'.ret[j]].priority
                               /\ mems[mlast'.ret[i]].timestamp >= mems[mlast'.ret[j]].timestamp]_vars

\* C8: store_memory, retrieve_by_tags, get_recent_memories and
\* consolidate_memories never end with an error.
C8_NoMemoryOperationRaises ==
    mlast.op \in {"store_memory", "retrieve_by_tags", "get_recent_memories",
                  "consolidate_memories"}
    => mlast.result = "ok"

\* C18: for every retrieve_by_tags call, with limit absent, 0 or positive, the
\* call returns, the memories whose access_count it increments by one and
\* whose last_accessed it refreshes are exactly the memories it returns, and
\* no other memory is modified.
C18_AccessUpdatedOnReturned ==
    [][\A tg \in TagInputs, ty \in {"none", "short_term"}, lim \in Limits :
          retrieve_by_tags(tg, ty, lim)
          => /\ mlast'.result = "ok"
             /\ \A m \in DOMAIN mems :
                   mems'[m] = IF m \in Range(mlast'.ret)
                              THEN [mems[m] EXCEPT !.access_count = @ + 1,
                                                   !.last_accessed = now]
                              ELSE mems[m]]_vars

\* C19: every memory listed under a tag in the index is held in one of the
\* stores.
C19_IndexedAreHeld ==
    \A t \in Tags : Range(index[t]) \subseteq Held

\* the condition of the claim on a memory of a store at the time of the call
Qualifies(m) ==
    /\ mems[m].priority # CRITICAL
    /\ now - mems[m].timestamp > decay_interval
    /\ \/ mems[m].access_count = 0
       \/ 10 * mems[m].access_count * decay_interval < now - mems[m].timestamp

\* C20 (as stated): consolidate_memories(T), T not long_term, called with the
\* long-term store below its limit, moves to the long-term store exactly the
\* qualifying memories of T, retyped long_term, and leaves every other memory
\* of T in place; consolidate_memories(long_term) changes nothing.
C20_MovesWhenBelowLimit ==
    [][\A T \in Range(MemoryTypes) :
          consolidate_memories(T)
          => IF T = "long_term"
             THEN UNCHANGED <<mems, memories, index>>
             ELSE LET moved == SelectSeq(memories[T], LAMBDA m : Qualifies(m))
                      stay  == SelectSeq(memories[T], LAMBDA m : ~Qualifies(m))
                  IN  Len(memories["long_term"]) < long_term_limit
                      => /\ mlast'.result = "ok"
                         /\ memories'[T] = stay
                         /\ \A m \in Range(moved) :
                               /\ m \in Range(memories'["long_term"])
                               /\ mems'[m].type = "long_term"
                         /\ \A m \in Range(memories'["long_term"]) :
                               m \in Range(memories["long_term"]) \cup Range(moved)]_vars

\* C20 (amended): consolidate_memories(T), T not long_term, with room in the
\* long-term store for the memories it moves, moves to the long-term store exactly the memories of T with
\* priority # critical, age > decay_interval and (access_count = 0 or
\* access_count / (age / decay_interval) < 0.1), retypes them long_term and
\* leaves every other memory of T in place; consolidate_memories(long_term)
\* changes nothing.
C20_ConsolidateMovesQualifying ==
    [][\A T \in Range(MemoryTypes) :
          consolidate_memories(T)
          => IF T = "long_term"
             THEN UNCHANGED <<mems, memories, index>>
             ELSE LET moved == SelectSeq(memories[T], LAMBDA m : Qualifies(m))
                      stay  == SelectSeq(memories[T], LAMBDA m : ~Qualifies(m))
                  IN  Len(memories["long_term"]) + Len(moved) <= long_term_limit
                      => /\ mlast'.result = "ok"
                         /\ memories' = [memories EXCEPT
                                           ![T] = stay,
                                           !["long_term"] = memories["long_term"] \o moved]
                         /\ \A m \in DOMAIN mems :
                               mems'[m] = IF m \in Range(moved)
                                          THEN [mems[m] EXCEPT !.type = "long_term"]
                                          ELSE mems[m]
                         /\ index' = index]_vars

\* C20 witness: a consolidation has moved a memory to the long-term store and
\* left a critical memory of the same age where it was
C20_Witness ==
    /\ mlast.op = "consolidate_memories"
    /\ mlast.result = "ok"
    /\ \E m \in Range(mlast.ret) :
          /\ m \in Range(memories["long_term"])
          /\ mems[m].type = "long_term"
          /\ \E k \in Held :
                /\ mems[k].priority = CRITICAL
                /\ mems[k].type # "long_term"
                /\ mems[k].timestamp = mems[m].timestamp


\* C28: with short_term_limit = 0 the short-term store, and the tag index,
\* hold no short-term memory after any store_memory call.
C28_ZeroLimitHoldsNothing ==
    (short_term_limit = 0 /\ mlast.op = "store_memory") =>
        /\ memories["short_term"] = <<>>
        /\ \A t \in Tags : \A m \in Range(index[t]) : mems[m].type # "short_term"

\* C29: after any sequence of store_memory, consolidate_memories and
\* clear_memory, every memory held in a store is listed in the tag index under
\* each of its tags, so that clear_memory(T) leaves the memories of the other
\* types retrievable by retrieve_by_tags.
C29_HeldAreIndexed ==
    \A m \in Held : \A t \in Range(mems[m].tags) : m \in Range(index[t])
-----------------------------------------------------------------------------
(* ContextManager: properties *)

\* the context of a type added last, or NoContext
LastAdded(ty) ==
    LET S == {i \in DOMAIN context_history : context_history[i].type = ty}
    IN  IF S = {} THEN NoContext
        ELSE context_history[CHOOSE i \in S : \A j \in S : j <= i]

\* C5 (as stated): a context added at t0 with ttl T and not replaced since is
\* returned by get_context at every query time before t0 + T and get_context
\* returns None at every query time at or after t0 + T.
C5_AbsentFromExpiry ==
    clast.op = "get_context" =>
        LET c == LastAdded(clast.type)
        IN  (c # NoContext /\ c.expires # None) =>
               /\ clast.at < c.expires => clast.ret = c
               /\ clast.at >= c.expires => clast.ret = NoContext

\* C5 (amended): a context added at t0 with ttl T and not replaced since is
\* returned by get_context at every query time up to and including t0 + T, and
\* get_context returns None at every query time after t0 + T.
C5_AbsentAfterExpiry ==
    clast.op = "get_context" =>
        LET c == LastAdded(clast.type)
        IN  (c # NoContext /\ c.expires # None) =>
               /\ c.expires > c.timestamp
               /\ clast.at <= c.expires => clast.ret = c
               /\ clast.at > c.expires => clast.ret = NoContext

\* C5 witness: get_context was called at the instant t0 + T and returned the
\* context
C5_Witness ==
    /\ clast.op = "get_context"
    /\ clast.ret # NoContext
    /\ clast.ret.expires = clast.at

-----------------------------------------------------------------------------
(* LearningManager._calculate_similarity: properties *)

\* C6: _calculate_similarity(c1, c2) equals _calculate_similarity(c2, c1), the
\* number of keys in both with equal values over the number of keys in either,
\* 0 when both are empty.
C6_SimilaritySymmetric ==
    similarity # <<>> =>
        /\ SameQuotient(similarity, calculate_similarity(context2, context1))
        /\ (DOMAIN context1 = {} /\ DOMAIN context2 = {}) => similarity[1] = 0

\* C6 witness: the similarity of two contexts that share a key with equal
\* values and differ in their key sets was computed
C6_Witness ==
    /\ similarity # <<>>
    /\ similarity[1] > 0
    /\ DOMAIN context1 # DOMAIN context2

-----------------------------------------------------------------------------
(* ContextManager: reads and history *)

\* a context whose expires is earlier than the time t
Stale(c, t) == c # NoContext /\ c.expires # None /\ c.expires < t

\* the data of the contexts of the types, in order, that are not stale at t
RECURSIVE LiveData(_, _, _)
LiveData(cur, types, t) ==
    IF types = <<>> THEN <<>>
    ELSE (IF cur[Head(types)] # NoContext /\ ~Stale(cur[Head(types)], t)
          THEN <<cur[Head(types)].data>> ELSE <<>>) \o LiveData(cur, Tail(types), t)

\* C21: expired contexts are invisible to every read: get_context and
\* merge_contexts never return the data of a context whose expires is earlier
\* than the current time, and the active_contexts count of summarize_context
\* never includes such a context, purged or not.
C21_ExpiredInvisible ==
    [][/\ \A ty \in ContextTypes :
             get_context(ty) => ~Stale(clast'.ret, now)
       /\ \A tys \in {<<"market", "social">>, <<"social", "market">>} :
             merge_contexts(tys) => clast'.ret = LiveData(current_context, tys, now)
       /\ \A ty \in OptionalContextTypes :
             summarize_context(ty)
             => /\ ~Stale(clast'.ret.context, now)
                /\ clast'.ret.active_contexts =
                      Cardinality({t \in ContextTypes :
                                     /\ current_context[t] # NoContext
                                     /\ ~Stale(current_context[t], now)})]_vars

Min(a, b) == IF a <= b THEN a ELSE b

\* h is an initial part of k
IsPrefix(h, k) == Len(h) <= Len(k) /\ SubSeq(k, 1, Len(h)) = h

\* the entries of the log of the type ("none": of any type), in log order
OfType(h, context_type) ==
    IF context_type = "none" THEN h ELSE SelectSeq(h, LAMBDA c : c.type = context_type)

\* C22: the context history is an append-only log: every add_context appends
\* exactly one entry at the end, also when it overwrites the current context
\* of its type; no operation removes, reorders or changes an entry; and
\* get_context_history(type, limit) returns the last limit entries of the
\* type-filtered log in insertion order.
C22_HistoryAppendOnly ==
    [][/\ IsPrefix(context_history, context_history')
       /\ \A ty \in ContextTypes, d \in ContextData, ttl \in {None} \cup 0..MaxTtl :
             add_context(ty, d, 1, ttl)
             => context_history' = Append(context_history, clast'.ret)
       /\ context_history' # context_history => clast'.op = "add_context"
       /\ \A ty \in OptionalContextTypes, limit \in HistoryLimits :
             get_context_history(ty, limit)
             => LET log == OfType(context_history, ty)
                IN  clast'.ret =
                      IF limit = None THEN log
                      ELSE [i \in 1..Min(limit, Len(log)) |->
                              log[Len(log) - Min(limit, Len(log)) + i]]]_vars

-----------------------------------------------------------------------------
(* LearningManager: properties *)

\* the similarity of the experience at position i to the query context c
SimilarityTo(c, i) == calculate_similarity(c, experiences[i].context)

WithAction(S, a) == {i \in S : experiences[i].action = a}

TotalScore(S) == SumOver([i \in DOMAIN experiences |-> experiences[i].success_score], S)

TotalImportance(S) == SumOver([i \in DOMAIN experiences |-> experiences[i].importance], S)

\* (mean success_score, total importance) of the group S is below that of T
LexLess(S, T) ==
    LET ms == TotalScore(S) * Cardinality(T)
        mt == TotalScore(T) * Cardinality(S)
    IN  ms < mt \/ (ms = mt /\ TotalImportance(S) < TotalImportance(T))

SuccessThreshold == 7

\* pattern["contexts"][-50:]
ContextSample == 50

\* the positions of the experiences recorded with the pattern key
RecordedWith(es, exp_type, action) ==
    {i \in DOMAIN es : es[i].type = exp_type /\ es[i].action = action}

\* C25: after any sequence of record_experience calls, for every (type,
\* action) pattern total_count is the number of experiences recorded with that
\* key, success_count the number of those with success_score >= 0.7,
\* avg_success is success_count / total_count, and the context sample holds at
\* most 50 contexts, those of the most recent successful experiences in
\* recording order; the experience list only grows.
C25_PatternCounts ==
    [][/\ IsPrefix(experiences, experiences')
       /\ \A ty \in ExperienceTypes, a \in Actions, c \in StoredContexts,
             sc \in SuccessScores, imp \in Importances :
             record_experience(ty, a, c, sc, imp)
             => /\ experiences' = Append(experiences, Experience(ty, a, c, sc, imp))
                /\ patterns' # NoPatterns
                /\ \A t \in ExperienceTypes, b \in Actions :
                      LET all  == RecordedWith(experiences', t, b)
                          good == {i \in all : experiences'[i].success_score >= SuccessThreshold}
                          ctx  == [i \in 1..Cardinality(good) |->
                                     experiences'[CHOOSE g \in good :
                                        Cardinality({h \in good : h <= g}) = i].context]
                      IN  all # {} =>
                             /\ patterns'[<<t, b>>].total_count = Cardinality(all)
                             /\ patterns'[<<t, b>>].success_count = Cardinality(good)
                             /\ Cardinality(good) <= Cardinality(all)
                             /\ patterns'[<<t, b>>].avg_success
                                   = <<Cardinality(good), Cardinality(all)>>
                             /\ Len(patterns'[<<t, b>>].contexts) <= ContextSample
                             /\ patterns'[<<t, b>>].contexts
                                   = SubSeq(ctx, Len(ctx) - Min(ContextSample, Len(ctx)) + 1,
                                            Len(ctx))]_vars

-----------------------------------------------------------------------------
(* ErrorHandler: properties *)

\* C30: every handle_error call given a retry function invokes it at most
\* once; the call counts the error, and the k-th error of a type (k the
\* count after the call) is retried if and only if k < max_retries; the
\* counts never decrease, so a type whose count has reached max_retries is
\* not retried again.
C30_RetriesBounded ==
    [][/\ \A t \in ErrorTypes : error_counts'[t] >= error_counts[t]
       /\ \A t \in ErrorTypes, rf \in RetryFunctions :
             handle_error(t, rf) =>
                /\ error_counts'[t] = error_counts[t] + 1
                /\ retries'[t] - retries[t] \in {0, 1}
                /\ (retries'[t] - retries[t] = 1) <=> (error_counts'[t] < max_retries)
                /\ error_counts[t] >= max_retries => retries'[t] = retries[t]]_vars

\* an error type that was retried on each of its first max_retries - 1
\* errors and whose later errors, given a retry function, were not retried
C30_Witness ==
    /\ max_retries = DefaultMaxRetries
    /\ hlast.op = "handle_error"
    /\ hlast.retry_function # Absent
    /\ hlast.invoked = 0
    /\ error_counts[hlast.error_type] > max_retries
    /\ retries[hlast.error_type] = max_retries - 1

-----------------------------------------------------------------------------
(* Agent._run_cognition_loop: properties *)

\* C26: an exception raised by any step of an iteration does not end the
\* loop: control goes to the error handler with the error, which counts it,
\* then the loop sleeps for the cooldown and starts a new iteration; after
\* every failing step a new iteration eventually starts.
C26_LoopSurvivesErrors ==
    /\ [](pc # "terminated")
    /\ [][/\ (pc \in IterationSteps /\ loop_error' # loop_error) =>
                (pc' = "handle_error" /\ loop_error' \in ErrorTypes)
          /\ pc = "handle_error" =>
                /\ pc' = "sleep_cooldown"
                /\ hlast'.op = "handle_error"
                /\ hlast'.error_type = loop_error
                /\ error_counts'[loop_error] = error_counts[loop_error] + 1
          /\ pc = "sleep_cooldown" =>
                (pc' = "get_current_context" /\ slept' = LoopCooldown)]_vars
    /\ (pc = "handle_error") ~> (pc = "get_current_context" /\ loop_error = Absent)

\* a new iteration started after the cooldown sleep, in a run where
\* iterations failed with both error types
C26_Witness ==
    /\ pc = "get_current_context"
    /\ slept = LoopCooldown
    /\ loop_error = Absent
    /\ \A t \in ErrorTypes : error_counts[t] > 0

=============================================================================
